---- MODULE Spec2Model ----
(***************************************************************************)
(* A model of boltbench (src/boltbench.go): a TPC-B-like load generator    *)
(* over a bolt database file.  The state is the committed database file,   *)
(* the command-line flags of the current run, the position of main() and   *)
(* of every worker goroutine, the single write transaction bolt allows at  *)
(* a time, and the shared iteration counter.                               *)
(*                                                                         *)
(* Table cardinalities and the seeding batch are scaled down so that the   *)
(* state space is finite and small: AccountsPerScale stands for 100_000,   *)
(* TellersPerScale for 10 and BatchSize for 1000.  The proportions that    *)
(* matter are kept: there are more tellers than branches, and table sizes  *)
(* both below, equal to and above a multiple of the batch occur.           *)
(*                                                                         *)
(* Specifications: Spec is one run at -scale=1 on a new file; SpecRuns is   *)
(* any number of runs, at any scale, on the same file; SpecUnseeded is a   *)
(* run without seeding on a file seeded for a smaller scale; SpecLive is   *)
(* a seeded run without store errors, under fairness; SpecFill is          *)
(* fillTable called on its own; SpecMetrics is the computation of the      *)
(* result row on its own.                                                  *)
(*                                                                         *)
(* Left out: History.Mtime (the wall clock), the pprof HTTP listener,       *)
(* logging and the rendering of the result table.                          *)
(***************************************************************************)
EXTENDS Integers, Sequences, FiniteSets, TLC

\* ---------------------------------------------------------------- bounds
MaxScale == 2          \* -scale ranges over 1..MaxScale
MaxWorkers == 2        \* -concurrency ranges over 1..MaxWorkers
MaxIter == 2           \* iterations counted, over all runs on the database file
MaxRuns == 2           \* runs of the program on the same database file
AccountsPerScale == 1  \* stands for 100_000
TellersPerScale == 3   \* stands for 10
BatchSize == 2         \* stands for 1000
MaxLimit == 4          \* largest limit, and largest seeded prefix, of the seeding harness
MaxCount == 6          \* largest iteration count of the result-row harness

\* ------------------------------------------------------ program constants
BranchesPerScale == 1

\* time.Second: a time.Duration counts nanoseconds.
Second == 1000000000

accountPrefix == "accounts:"
tellerPrefix == "tellers:"
branchPrefix == "branches:"
historyPrefix == "history:"

Tables == <<accountPrefix, tellerPrefix, branchPrefix, historyPrefix>>

\* rand.Int64N(10000) - 5000 draws from [-5000, 5000); two representatives
\* of either sign and of different magnitude.
Deltas == {-1, 2}

\* A nil []byte: what Get returns for a key the bucket does not hold.
Nil == <<>>
NoWorker == 0
Workers == 1..MaxWorkers

\* ------------------------------------------------------------ the codec
\* strconv.Itoa on a non-negative int: the decimal digits, most significant
\* first, with no leading zero.
RECURSIVE Itoa(_)
Itoa(n) == IF n < 10 THEN <<n>> ELSE Itoa(n \div 10) \o <<n % 10>>

keyFor(id) == Itoa(id)

\* The exported fields of the four structs, in declaration order.
AccountFields == <<"AID", "BID", "Abalance", "Filler">>
TellerFields == <<"TID", "BID", "Tbalance", "Filler">>
BrancheFields == <<"BID", "Bbalance", "Filler">>
HistoryFields == <<"TID", "BID", "AID", "Delta", "Filler">>

Account(it) == [AID |-> it, BID |-> 0, Abalance |-> 0, Filler |-> ""]
Teller(it) == [TID |-> it, BID |-> 0, Tbalance |-> 0, Filler |-> ""]
Branche(it) == [BID |-> it, Bbalance |-> 0, Filler |-> ""]
History(t, b, a, d) == [TID |-> t, BID |-> b, AID |-> a, Delta |-> d, Filler |-> ""]

FieldsOf(val) ==
    IF "Abalance" \in DOMAIN val THEN AccountFields
    ELSE IF "Tbalance" \in DOMAIN val THEN TellerFields
    ELSE IF "Bbalance" \in DOMAIN val THEN BrancheFields
    ELSE HistoryFields

\* json.Marshal of a struct: the object's members, <<name, value>>, in field
\* order.
valueFor(val) ==
    LET fields == FieldsOf(val)
    IN [i \in 1..Len(fields) |-> <<fields[i], val[fields[i]]>>]

\* json.Unmarshal into a struct with the given fields: each field takes the
\* value of the member of its name.
Unmarshal(data, fields) ==
    [f \in {fields[i] : i \in 1..Len(fields)} |->
        (CHOOSE m \in {data[i] : i \in 1..Len(data)} : m[1] = f)[2]]

\* The genfunc closures fill() hands to fillTable, by table.
genfunc(p, it) ==
    IF p = accountPrefix THEN Account(it)
    ELSE IF p = tellerPrefix THEN Teller(it)
    ELSE Branche(it)

\* ------------------------------------------------------- the bolt bucket
\* A bucket is its key/value pairs and its sequence counter.
EmptyBucket == [kv |-> <<>>, sequence |-> 0]

Get(b, k) == IF k \in DOMAIN b.kv THEN b.kv[k] ELSE Nil

Put(b, k, v) ==
    [b EXCEPT !.kv = [x \in (DOMAIN b.kv) \cup {k} |-> IF x = k THEN v ELSE b.kv[x]]]

\* for k, _ := c.First(); k != nil; k, _ = c.Next() { created++ }
CursorCount(b) == Cardinality(DOMAIN b.kv)

\* tx.CreateBucketIfNotExists for each of the four tables.
CreateBuckets(d) ==
    [t \in {Tables[i] : i \in 1..4} |-> IF t \in DOMAIN d THEN d[t] ELSE EmptyBucket]

\* --------------------------------------------------------------- state
VARIABLES
    db,          \* the committed content of my.db: bucket name -> bucket
    scale, RWMode, initMode, concurrency, benchtime,   \* the flags of this run
    pc,          \* where main() is
    prefix, limit, created, fpc,            \* fillTable: parameters, local, position
    calls,       \* seeding harness: fillTable calls made
    before,      \* seeding harness: the bucket as it was before the first call
    wpc,         \* where each worker goroutine is
    aid, tid, bid, adelta,                  \* readWrite's draws, per worker
    writer,      \* the worker holding bolt's writer lock, or NoWorker
    txn,         \* the write transaction's uncommitted view of the buckets
    iterations,  \* the shared counter
    finished,    \* finishTimer.Done() is closed
    wg,          \* the WaitGroup counter
    reported,    \* the result row: <<>> before it is printed, then <<name, latency, throughput>>
    performed,   \* per worker: iterations it performed in this run
    total,       \* iterations counted in all runs on this database file
    runs         \* runs started on this database file

flagVars == <<scale, RWMode, initMode, concurrency, benchtime>>
harnessVars == <<calls, before>>
fillVars == <<prefix, limit, created, fpc, harnessVars>>
drawVars == <<aid, tid, bid, adelta>>
vars == <<db, scale, RWMode, initMode, concurrency, benchtime, pc, prefix, limit,
          created, fpc, calls, before, wpc, aid, tid, bid, adelta, writer, txn, iterations,
          finished, wg, reported, performed, total, runs>>

accountsToCreate == scale * AccountsPerScale
tellersToCreate == scale * TellersPerScale
branchesToCreate == scale * BranchesPerScale

\* The process state right after flag.Parse(), whatever the database holds.
\* -benchtime enters the result row only (when the deadline passes is for
\* the timer to say), and the runs are taken with -benchtime=250ms.
Fresh ==
    /\ scale \in 1..MaxScale
    /\ RWMode \in BOOLEAN
    /\ initMode \in BOOLEAN
    /\ concurrency \in 1..MaxWorkers
    /\ benchtime = Second \div 4
    /\ pc = "start"
    /\ prefix = "" /\ limit = 0 /\ created = 0 /\ fpc = "idle"
    /\ calls = 0 /\ before = <<>>
    /\ wpc = [w \in Workers |-> "unborn"]
    /\ aid = [w \in Workers |-> 0]
    /\ tid = [w \in Workers |-> 0]
    /\ bid = [w \in Workers |-> 0]
    /\ adelta = [w \in Workers |-> 0]
    /\ writer = NoWorker
    /\ txn = <<>>
    /\ iterations = 0
    /\ finished = FALSE
    /\ wg = 0
    /\ reported = <<>>
    /\ performed = [w \in Workers |-> 0]

Init ==
    /\ db = <<>>
    /\ total = 0
    /\ runs = 1
    /\ Fresh

\* ---------------------------------------------------------------- main
\* bolt.Open and the Update that creates the four buckets; then fill(db)
\* when -init is set.
MainOpen ==
    /\ pc = "start"
    /\ db' = CreateBuckets(db)
    /\ pc' = IF initMode THEN "fill" ELSE "test"
    /\ UNCHANGED <<flagVars, fillVars, wpc, drawVars, writer, txn, iterations,
                   finished, wg, reported, performed, total, runs>>

\* ------------------------------------------------------------ fillTable
\* The call: created := 0, and the View that counts the bucket's keys.
fillTableCall(p, l) ==
    /\ prefix' = p
    /\ limit' = l
    /\ created' = 0
    /\ fpc' = "view"

FillTableView ==
    /\ fpc = "view"
    /\ created' = created + CursorCount(db[prefix])
    /\ fpc' = "loop"
    /\ UNCHANGED <<db, flagVars, pc, prefix, limit, harnessVars, wpc, drawVars, writer,
                   txn, iterations, finished, wg, reported, performed, total, runs>>

\* A batch that forgets the test it < limit.
BatchKeysUnbounded(c, l) == {it \in c..(c + BatchSize - 1) : it - c < BatchSize}

\* A batch that is one key short.
BatchKeysShort(c, l) == {it \in c..(l - 1) : it - c < BatchSize - 1}

\* The keys one batch puts: for it := created; it < limit && it-created < 1000; it++
BatchKeys(c, l) == {it \in c..(l - 1) : it - c < BatchSize}

RECURSIVE PutAll(_, _, _)
PutAll(b, p, its) ==
    IF its = {} THEN b
    ELSE LET it == CHOOSE x \in its : \A y \in its : x <= y
         IN PutAll(Put(b, keyFor(it), valueFor(genfunc(p, it))), p, its \ {it})

\* A counter that advances by one per batch.
BatchAdvanceByOne(c) == c + 1

\* created += 1000 at the end of the batch's closure
BatchAdvance(c) == c + BatchSize

\* One db.Update of the loop "for created < limit".
FillTableBatch ==
    /\ fpc = "loop"
    /\ created < limit
    /\ db' = [db EXCEPT ![prefix] = PutAll(@, prefix, BatchKeys(created, limit))]
    /\ created' = BatchAdvance(created)
    /\ UNCHANGED <<flagVars, pc, prefix, limit, fpc, harnessVars, wpc, drawVars, writer,
                   txn, iterations, finished, wg, reported, performed, total, runs>>

FillTableReturn ==
    /\ fpc = "loop"
    /\ ~(created < limit)
    /\ fpc' = "ret"
    /\ UNCHANGED <<db, flagVars, pc, prefix, limit, created, harnessVars, wpc, drawVars,
                   writer, txn, iterations, finished, wg, reported, performed,
                   total, runs>>

\* ----------------------------------------------------------------- fill
FillAccounts ==
    /\ pc = "fill"
    /\ fillTableCall(accountPrefix, accountsToCreate)
    /\ pc' = "fillAccounts"
    /\ UNCHANGED <<db, flagVars, harnessVars, wpc, drawVars, writer, txn, iterations,
                   finished, wg, reported, performed, total, runs>>

FillTellers ==
    /\ pc = "fillAccounts"
    /\ fpc = "ret"
    /\ fillTableCall(tellerPrefix, tellersToCreate)
    /\ pc' = "fillTellers"
    /\ UNCHANGED <<db, flagVars, harnessVars, wpc, drawVars, writer, txn, iterations,
                   finished, wg, reported, performed, total, runs>>

FillBranches ==
    /\ pc = "fillTellers"
    /\ fpc = "ret"
    /\ fillTableCall(branchPrefix, branchesToCreate)
    /\ pc' = "fillBranches"
    /\ UNCHANGED <<db, flagVars, harnessVars, wpc, drawVars, writer, txn, iterations,
                   finished, wg, reported, performed, total, runs>>

FillDone ==
    /\ pc = "fillBranches"
    /\ fpc = "ret"
    /\ fpc' = "idle"
    /\ pc' = "test"
    /\ UNCHANGED <<db, flagVars, prefix, limit, created, harnessVars, wpc, drawVars,
                   writer, txn, iterations, finished, wg, reported, performed,
                   total, runs>>

\* -------------------------------------------------------- the workload
\* var iterations; context.WithTimeout; wg.Add(concurrency); the go statements.
MainStartTest ==
    /\ pc = "test"
    /\ iterations' = 0
    /\ finished' = FALSE
    /\ wg' = concurrency
    /\ wpc' = [w \in Workers |-> IF w <= concurrency THEN "select" ELSE "unborn"]
    /\ pc' = "wait"
    /\ UNCHANGED <<db, flagVars, fillVars, drawVars, writer, txn, reported,
                   performed, total, runs>>

\* A deadline that cancels the operation in flight: the open transaction is
\* dropped and its worker is back at the select.
TimeoutAborts ==
    /\ pc = "wait"
    /\ ~finished
    /\ finished' = TRUE
    /\ writer' = NoWorker
    /\ txn' = <<>>
    /\ wpc' = [w \in Workers |-> IF writer = w THEN "select" ELSE wpc[w]]
    /\ UNCHANGED <<db, flagVars, pc, fillVars, drawVars, iterations, wg, reported,
                   performed, total, runs>>

\* The deadline of finishTimer passes.
Timeout ==
    /\ pc = "wait"
    /\ ~finished
    /\ finished' = TRUE
    /\ UNCHANGED <<db, flagVars, pc, fillVars, wpc, drawVars, writer, txn,
                   iterations, wg, reported, performed, total, runs>>

\* case <-finishTimer.Done(): return, and the deferred wg.Done().
WorkerReturn(w) ==
    /\ pc = "wait"
    /\ wpc[w] = "select"
    /\ finished
    /\ wpc' = [wpc EXCEPT ![w] = "done"]
    /\ wg' = wg - 1
    /\ UNCHANGED <<db, flagVars, pc, fillVars, drawVars, writer, txn, iterations,
                   finished, reported, performed, total, runs>>

\* An increment that is not atomic: the store of a value computed from a
\* stale read of 0.
AddUint64Racy(addr, delta) == delta

\* atomic.AddUint64(&iterations, 1)
AddUint64(addr, delta) == addr + delta

\* A loop that calls the operation without counting it.
WorkerIterateUncounted(w) ==
    /\ pc = "wait"
    /\ wpc[w] = "select"
    /\ ~finished
    /\ total < MaxIter
    /\ total' = total + 1
    /\ wpc' = [wpc EXCEPT ![w] = "op"]
    /\ UNCHANGED <<db, flagVars, pc, fillVars, drawVars, writer, txn, iterations,
                   finished, wg, reported, performed, runs>>

\* A loop without the case <-finishTimer.Done().
WorkerIterateNoCheck(w) ==
    /\ pc = "wait"
    /\ wpc[w] = "select"
    /\ total < MaxIter
    /\ iterations' = AddUint64(iterations, 1)
    /\ performed' = [performed EXCEPT ![w] = @ + 1]
    /\ total' = total + 1
    /\ wpc' = [wpc EXCEPT ![w] = "op"]
    /\ UNCHANGED <<db, flagVars, pc, fillVars, drawVars, writer, txn, finished,
                   wg, reported, runs>>

\* default: the counter is incremented, then the operation is called.
WorkerIterate(w) ==
    /\ pc = "wait"
    /\ wpc[w] = "select"
    /\ ~finished
    /\ total < MaxIter
    /\ iterations' = AddUint64(iterations, 1)
    /\ performed' = [performed EXCEPT ![w] = @ + 1]
    /\ total' = total + 1
    /\ wpc' = [wpc EXCEPT ![w] = "op"]
    /\ UNCHANGED <<db, flagVars, pc, fillVars, drawVars, writer, txn, finished,
                   wg, reported, runs>>

\* What the file holds when a transaction ends without committing: Update
\* rolls back, on an error and (deferred) on a panic.
RolledBack(d, tx) == d

\* A panic in any goroutine ends the process; an open transaction is rolled
\* back.
Panic ==
    /\ pc' = "crashed"
    /\ writer' = NoWorker
    /\ txn' = <<>>
    /\ db' = RolledBack(db, txn)

\* --------------------------------------------------------------- read
\* A read done in an Update that also takes a sequence number from the
\* bucket.
ReadTakesSequence(w) ==
    /\ pc = "wait"
    /\ wpc[w] = "op"
    /\ ~RWMode
    /\ \E a \in 0..(accountsToCreate - 1) :
          /\ IF Get(db[accountPrefix], keyFor(a)) = Nil
                THEN Panic /\ UNCHANGED wpc
                ELSE /\ wpc' = [wpc EXCEPT ![w] = "select"]
                     /\ db' = [db EXCEPT ![accountPrefix] =
                                  [@ EXCEPT !.sequence = @ + 1]]
                     /\ UNCHANGED <<pc, writer, txn>>
    /\ UNCHANGED <<flagVars, fillVars, drawVars, iterations, finished, wg,
                   reported, performed, total, runs>>

\* The whole of read(): one View, which sees the committed buckets.
Read(w) ==
    /\ pc = "wait"
    /\ wpc[w] = "op"
    /\ ~RWMode
    /\ \E a \in 0..(accountsToCreate - 1) :
          /\ IF Get(db[accountPrefix], keyFor(a)) = Nil
                THEN Panic /\ UNCHANGED wpc
                ELSE /\ wpc' = [wpc EXCEPT ![w] = "select"]
                     /\ UNCHANGED <<db, pc, writer, txn>>
    /\ UNCHANGED <<flagVars, fillVars, drawVars, iterations, finished, wg,
                   reported, performed, total, runs>>

\* ---------------------------------------------------------- readWrite
\* The four draws, and db.Update taking bolt's writer lock: the transaction
\* starts from the committed buckets.
ReadWriteBegin(w) ==
    /\ pc = "wait"
    /\ wpc[w] = "op"
    /\ RWMode
    /\ writer = NoWorker
    /\ \E a \in 0..(accountsToCreate - 1), t \in 0..(tellersToCreate - 1),
          b \in 0..(branchesToCreate - 1), d \in Deltas :
          /\ aid' = [aid EXCEPT ![w] = a]
          /\ tid' = [tid EXCEPT ![w] = t]
          /\ bid' = [bid EXCEPT ![w] = b]
          /\ adelta' = [adelta EXCEPT ![w] = d]
    /\ writer' = w
    /\ txn' = db
    /\ wpc' = [wpc EXCEPT ![w] = "account"]
    /\ UNCHANGED <<db, flagVars, pc, fillVars, iterations, finished, wg, reported,
                   performed, total, runs>>

\* What the closure does to one table: get under getKey, add the delta to
\* the balance field, put under putKey.
Adjust(tx, table, getKey, putKey, fields, balance, d) ==
    LET rec == Unmarshal(Get(tx[table], getKey), fields)
    IN [tx EXCEPT ![table] = Put(@, putKey, valueFor([rec EXCEPT ![balance] = @ + d]))]

\* The key the updated account is put under.
AccountPutKey(w) == keyFor(aid[w])

\* The account update in an Update of its own: it is committed at once.
ReadWriteAccountOwnUpdate(w) ==
    /\ pc = "wait"
    /\ wpc[w] = "account"
    /\ IF Get(txn[accountPrefix], keyFor(aid[w])) = Nil
          THEN Panic /\ UNCHANGED wpc
          ELSE /\ txn' = Adjust(txn, accountPrefix, keyFor(aid[w]), AccountPutKey(w),
                                AccountFields, "Abalance", adelta[w])
               /\ db' = Adjust(db, accountPrefix, keyFor(aid[w]), AccountPutKey(w),
                               AccountFields, "Abalance", adelta[w])
               /\ wpc' = [wpc EXCEPT ![w] = "teller"]
               /\ UNCHANGED <<pc, writer>>
    /\ UNCHANGED <<flagVars, fillVars, drawVars, iterations, finished, wg, reported,
                   performed, total, runs>>

\* UPDATE pgbench_accounts SET abalance = abalance + :delta WHERE aid = :aid
ReadWriteAccount(w) ==
    /\ pc = "wait"
    /\ wpc[w] = "account"
    /\ IF Get(txn[accountPrefix], keyFor(aid[w])) = Nil
          THEN Panic /\ UNCHANGED wpc
          ELSE /\ txn' = Adjust(txn, accountPrefix, keyFor(aid[w]), AccountPutKey(w),
                                AccountFields, "Abalance", adelta[w])
               /\ wpc' = [wpc EXCEPT ![w] = "teller"]
               /\ UNCHANGED <<db, pc, writer>>
    /\ UNCHANGED <<flagVars, fillVars, drawVars, iterations, finished, wg, reported,
                   performed, total, runs>>

\* The key the updated teller is put under.
TellerPutKey(w) == keyFor(tid[w])

\* UPDATE pgbench_tellers SET tbalance = tbalance + :delta WHERE tid = :tid
ReadWriteTeller(w) ==
    /\ pc = "wait"
    /\ wpc[w] = "teller"
    /\ IF Get(txn[tellerPrefix], keyFor(tid[w])) = Nil
          THEN Panic /\ UNCHANGED wpc
          ELSE /\ txn' = Adjust(txn, tellerPrefix, keyFor(tid[w]), TellerPutKey(w),
                                TellerFields, "Tbalance", adelta[w])
               /\ wpc' = [wpc EXCEPT ![w] = "branch"]
               /\ UNCHANGED <<db, pc, writer>>
    /\ UNCHANGED <<flagVars, fillVars, drawVars, iterations, finished, wg, reported,
                   performed, total, runs>>

\* The key the updated branch is put under: branchBucket.Put(keyFor(tid), ...).
BranchPutKey(w) == keyFor(tid[w])

\* UPDATE pgbench_branches SET bbalance = bbalance + :delta WHERE bid = :bid
ReadWriteBranch(w) ==
    /\ pc = "wait"
    /\ wpc[w] = "branch"
    /\ IF Get(txn[branchPrefix], keyFor(bid[w])) = Nil
          THEN Panic /\ UNCHANGED wpc
          ELSE /\ txn' = Adjust(txn, branchPrefix, keyFor(bid[w]), BranchPutKey(w),
                                BrancheFields, "Bbalance", adelta[w])
               /\ wpc' = [wpc EXCEPT ![w] = "history"]
               /\ UNCHANGED <<db, pc, writer>>
    /\ UNCHANGED <<flagVars, fillVars, drawVars, iterations, finished, wg, reported,
                   performed, total, runs>>

\* A sequence that starts over in every transaction.
NextSequencePerWorker(b) == 1

\* A sequence that is read but never advanced.
NextSequenceStuck(b) == b.sequence

\* historyBucket.NextSequence(): the bucket's counter, incremented.
NextSequence(b) == b.sequence + 1

\* INSERT INTO pgbench_history (tid, bid, aid, delta, mtime)
ReadWriteHistory(w) ==
    /\ pc = "wait"
    /\ wpc[w] = "history"
    /\ LET seq == NextSequence(txn[historyPrefix])
           b == [txn[historyPrefix] EXCEPT !.sequence = seq]
       IN txn' = [txn EXCEPT ![historyPrefix] =
                     Put(b, keyFor(seq),
                         valueFor(History(tid[w], bid[w], aid[w], adelta[w])))]
    /\ wpc' = [wpc EXCEPT ![w] = "commit"]
    /\ UNCHANGED <<db, flagVars, pc, fillVars, drawVars, writer, iterations,
                   finished, wg, reported, performed, total, runs>>

\* What the file holds once the transaction has committed.
Committed(d, tx) == tx

\* The closure returned nil: Update commits, readWrite returns (its locals
\* are gone) and the worker loops.
ReadWriteCommit(w) ==
    /\ pc = "wait"
    /\ wpc[w] = "commit"
    /\ db' = Committed(db, txn)
    /\ txn' = <<>>
    /\ writer' = NoWorker
    /\ wpc' = [wpc EXCEPT ![w] = "select"]
    /\ aid' = [aid EXCEPT ![w] = 0]
    /\ tid' = [tid EXCEPT ![w] = 0]
    /\ bid' = [bid EXCEPT ![w] = 0]
    /\ adelta' = [adelta EXCEPT ![w] = 0]
    /\ UNCHANGED <<flagVars, pc, fillVars, iterations, finished, wg, reported,
                   performed, total, runs>>

\* A failed commit that is retried: the error is dropped and the worker
\* calls readWrite again.
ReadWriteCommitRetries(w) ==
    /\ pc = "wait"
    /\ wpc[w] = "commit"
    /\ db' = RolledBack(db, txn)
    /\ writer' = NoWorker
    /\ txn' = <<>>
    /\ wpc' = [wpc EXCEPT ![w] = "op"]
    /\ UNCHANGED <<flagVars, pc, fillVars, drawVars, iterations, finished, wg,
                   reported, performed, total, runs>>

\* The commit fails (the store returns an error): Update rolls back and
\* returns it, and readWrite panics.
ReadWriteCommitFails(w) ==
    /\ pc = "wait"
    /\ wpc[w] = "commit"
    /\ db' = RolledBack(db, txn)
    /\ pc' = "crashed"
    /\ writer' = NoWorker
    /\ txn' = <<>>
    /\ UNCHANGED <<flagVars, fillVars, wpc, drawVars, iterations, finished, wg,
                   reported, performed, total, runs>>

\* ------------------------------------------------------- the result row
\* A float64 is modelled by the number it stands for: a ratio of two
\* integers, or +Inf, or NaN.  The durations and counts of the model are
\* non-negative, and small enough for a float64 to hold them exactly.
RECURSIVE GCD(_, _)
GCD(a, b) == IF b = 0 THEN a ELSE GCD(b, a % b)

Ratio(n, d) == [kind |-> "finite", num |-> n, den |-> d]
PosInf == [kind |-> "+Inf", num |-> 0, den |-> 1]
NaN == [kind |-> "NaN", num |-> 0, den |-> 1]

\* float64(x) of an integer
Float64(x) == Ratio(x, 1)

\* x / y on float64: a division by zero is +Inf, or NaN for 0/0.
FDiv(x, y) ==
    IF x.kind = "NaN" \/ y.kind = "NaN" THEN NaN
    ELSE IF x.kind = "+Inf" THEN (IF y.kind = "+Inf" THEN NaN ELSE PosInf)
    ELSE IF y.kind = "+Inf" THEN Ratio(0, 1)
    ELSE IF y.num = 0 THEN (IF x.num = 0 THEN NaN ELSE PosInf)
    ELSE Ratio(x.num * y.den, x.den * y.num)

\* x * y on float64
FMul(x, y) ==
    IF x.kind = "NaN" \/ y.kind = "NaN" THEN NaN
    ELSE IF x.kind = "+Inf" \/ y.kind = "+Inf"
         THEN (IF (x.kind = "finite" /\ x.num = 0) \/ (y.kind = "finite" /\ y.num = 0)
                  THEN NaN ELSE PosInf)
    ELSE Ratio(x.num * y.num, x.den * y.den)

\* Duration.Microseconds(): the whole microseconds, an int64.
Microseconds(d) == d \div 1000

\* Duration.Seconds(): the seconds, fraction included, a float64 (the ratio
\* of d to a second, in lowest terms).
Seconds(d) == Ratio(d \div GCD(d, Second), Second \div GCD(d, Second))

\* fmt.Sprintf("%0.3f", x): the integer part and three decimals, rounded to
\* the nearest; "+Inf" and "NaN" for the values that are no numbers.
Sprintf3(x) ==
    IF x.kind # "finite" THEN [text |-> x.kind, int |-> 0, frac |-> 0]
    ELSE LET whole == x.num \div x.den
             rem == x.num % x.den
             th == (2000 * rem + x.den) \div (2 * x.den)
         IN IF th = 1000 THEN [text |-> "", int |-> whole + 1, frac |-> 0]
            ELSE [text |-> "", int |-> whole, frac |-> th]

\* A latency that divides by the concurrency.
LatencyPerWorker(bt, its, conc) ==
    Sprintf3(FDiv(FDiv(Float64(Microseconds(bt)), Float64(its)), Float64(conc)))

\* float64(benchtime.Microseconds())/float64(iterations)*float64(*concurrency)
Latency(bt, its, conc) ==
    Sprintf3(FMul(FDiv(Float64(Microseconds(bt)), Float64(its)), Float64(conc)))

\* float64(iterations)/benchtime.Seconds()
Throughput(its, bt) == Sprintf3(FDiv(Float64(its), Seconds(bt)))

testName == IF RWMode THEN "tpcb-like" ELSE "tpcb-readonly"

\* table.Append([]string{testName, latency, throughput})
ResultRow ==
    <<testName, Latency(benchtime, iterations, concurrency),
      Throughput(iterations, benchtime)>>

\* ------------------------------------------------------------- the end
\* main without wg.Wait(): the row is computed while workers still run.
MainReportNoWait ==
    /\ pc = "wait"
    /\ reported' = ResultRow
    /\ pc' = "exit"
    /\ UNCHANGED <<db, flagVars, fillVars, wpc, drawVars, writer, txn, iterations,
                   finished, wg, performed, total, runs>>

\* wg.Wait() returns; the result row is computed from iterations, the
\* configured benchtime and the concurrency.
MainReport ==
    /\ pc = "wait"
    /\ wg = 0
    /\ reported' = ResultRow
    /\ pc' = "exit"
    /\ UNCHANGED <<db, flagVars, fillVars, wpc, drawVars, writer, txn, iterations,
                   finished, wg, performed, total, runs>>

\* The program is run again on the database file it left.
Restart ==
    /\ pc \in {"exit", "crashed"}
    /\ runs < MaxRuns
    /\ runs' = runs + 1
    /\ scale' \in 1..MaxScale
    /\ RWMode' \in BOOLEAN
    /\ initMode' \in BOOLEAN
    /\ concurrency' \in 1..MaxWorkers
    /\ benchtime' = Second \div 4
    /\ pc' = "start"
    /\ prefix' = "" /\ limit' = 0 /\ created' = 0 /\ fpc' = "idle"
    /\ calls' = 0 /\ before' = <<>>
    /\ wpc' = [w \in Workers |-> "unborn"]
    /\ aid' = [w \in Workers |-> 0]
    /\ tid' = [w \in Workers |-> 0]
    /\ bid' = [w \in Workers |-> 0]
    /\ adelta' = [w \in Workers |-> 0]
    /\ writer' = NoWorker
    /\ txn' = <<>>
    /\ iterations' = 0
    /\ finished' = FALSE
    /\ wg' = 0
    /\ reported' = <<>>
    /\ performed' = [w \in Workers |-> 0]
    /\ UNCHANGED <<db, total>>

\* fill and fillTable.
Seeding ==
    \/ FillAccounts
    \/ FillTellers
    \/ FillBranches
    \/ FillDone
    \/ FillTableView
    \/ FillTableBatch
    \/ FillTableReturn

\* main and the worker loop.
Harness ==
    \/ MainOpen
    \/ MainStartTest
    \/ Timeout
    \/ \E w \in Workers : WorkerReturn(w)
    \/ \E w \in Workers : WorkerIterate(w)
    \/ MainReport

ReadWrite ==
    \/ \E w \in Workers : ReadWriteBegin(w)
    \/ \E w \in Workers : ReadWriteAccount(w)
    \/ \E w \in Workers : ReadWriteTeller(w)
    \/ \E w \in Workers : ReadWriteBranch(w)
    \/ \E w \in Workers : ReadWriteHistory(w)
    \/ \E w \in Workers : ReadWriteCommit(w)
    \/ \E w \in Workers : ReadWriteCommitFails(w)

Next ==
    \/ Seeding
    \/ Harness
    \/ \E w \in Workers : Read(w)
    \/ ReadWrite

\* One run of the program at -scale=1 on a new database file, with any
\* -rwmode, -init and -concurrency.
InitScale1 == Init /\ scale = 1

Spec == InitScale1 /\ [][Next]_vars

\* Runs of the program, one after the other, on the same database file, at
\* any scale.
NextRuns == Next \/ Restart

SpecRuns == Init /\ [][NextRuns]_vars

\* The file a run with -scale=1 -init leaves when its workload wrote nothing.
SeededFile ==
    [t \in DOMAIN CreateBuckets(<<>>) |->
        IF t = accountPrefix THEN PutAll(EmptyBucket, t, 0..(AccountsPerScale - 1))
        ELSE IF t = tellerPrefix THEN PutAll(EmptyBucket, t, 0..(TellersPerScale - 1))
        ELSE IF t = branchPrefix THEN PutAll(EmptyBucket, t, 0..(BranchesPerScale - 1))
        ELSE EmptyBucket]

\* SpecRuns reaches the start of a second run on that file.
SeededFileReached == pc = "start" /\ runs = 2 /\ db = SeededFile

\* A run with -scale=2 -init=false on that file, in either mode: half of
\* the account ids, two thirds of the teller ids and half of the branch ids
\* it draws have no record.
InitUnseeded ==
    /\ db = SeededFile
    /\ total = 0
    /\ runs = 2
    /\ Fresh
    /\ scale = 2
    /\ initMode = FALSE

NextUnseeded ==
    \/ Harness
    \/ \E w \in Workers : Read(w)
    \/ ReadWrite

SpecUnseeded == InitUnseeded /\ [][NextUnseeded]_vars

\* ------------------------------------------------------- a run that ends
\* One run with -scale=1 -init on a new file, in which the store returns no
\* error: every record the workload looks up exists, and every commit
\* succeeds.
InitLive == Init /\ scale = 1 /\ initMode = TRUE

ReadWriteCompletes ==
    \/ \E w \in Workers : ReadWriteBegin(w)
    \/ \E w \in Workers : ReadWriteAccount(w)
    \/ \E w \in Workers : ReadWriteTeller(w)
    \/ \E w \in Workers : ReadWriteBranch(w)
    \/ \E w \in Workers : ReadWriteHistory(w)
    \/ \E w \in Workers : ReadWriteCommit(w)

NextLive ==
    \/ Seeding
    \/ Harness
    \/ \E w \in Workers : Read(w)
    \/ ReadWriteCompletes

\* The Go scheduler runs a runnable goroutine, and the timer of
\* context.WithTimeout fires: as long as the program can take a step, it
\* takes one.  Nothing is assumed about which goroutine runs, nor about
\* who gets bolt's writer lock.
Fairness == WF_vars(NextLive)

SpecLive == InitLive /\ [][NextLive]_vars /\ Fairness

\* --------------------------------------------------- the seeding harness
\* fillTable called on its own, twice in a row with the same arguments, on a
\* bucket in any shape the program leaves one in: the keys 0..k-1 of an
\* earlier seeding, with balances the workload has moved; and, in the
\* branch bucket only, the keys readWrite has put there under teller ids,
\* each holding a branch record read under a branch id (here branch 0).
WithBalance(rec, bal) ==
    IF "Abalance" \in DOMAIN rec THEN [rec EXCEPT !.Abalance = bal]
    ELSE IF "Tbalance" \in DOMAIN rec THEN [rec EXCEPT !.Tbalance = bal]
    ELSE [rec EXCEPT !.Bbalance = bal]

Left(p, k, extra, bal, stray) ==
    [kv |-> [key \in {keyFor(i) : i \in (0..(k - 1)) \cup extra} |->
                LET i == CHOOSE j \in (0..(k - 1)) \cup extra : keyFor(j) = key
                IN IF i < k
                      THEN valueFor(WithBalance(genfunc(p, i), bal))
                      ELSE valueFor(WithBalance(genfunc(p, 0), stray))],
     sequence |-> 0]

\* The teller ids readWrite can have put into a branch bucket seeded for k
\* branches, beyond the branch ids.
StrayKeys(p, k) ==
    IF p = branchPrefix
       THEN {x \in SUBSET (k..(k * TellersPerScale - 1)) : Cardinality(x) <= 2}
       ELSE {{}}

InitFill ==
    /\ \E p \in {accountPrefix, tellerPrefix, branchPrefix}, k \in 0..MaxLimit,
          bal \in {0} \cup Deltas :
          \E extra \in StrayKeys(p, k) :
             \E stray \in IF extra = {} THEN {0} ELSE {0} \cup Deltas :
                /\ prefix = p
                /\ db = [CreateBuckets(<<>>) EXCEPT ![p] = Left(p, k, extra, bal, stray)]
    /\ limit \in 0..MaxLimit
    /\ created = 0
    /\ fpc = "idle"
    /\ calls = 0
    /\ before = <<>>
    /\ pc = "harness"
    /\ scale = 1 /\ RWMode = FALSE /\ initMode = TRUE /\ concurrency = 1
    /\ benchtime = Second \div 4
    /\ wpc = [w \in Workers |-> "unborn"]
    /\ aid = [w \in Workers |-> 0]
    /\ tid = [w \in Workers |-> 0]
    /\ bid = [w \in Workers |-> 0]
    /\ adelta = [w \in Workers |-> 0]
    /\ writer = NoWorker
    /\ txn = <<>>
    /\ iterations = 0
    /\ finished = FALSE
    /\ wg = 0
    /\ reported = <<>>
    /\ performed = [w \in Workers |-> 0]
    /\ total = 0
    /\ runs = 1

HarnessCall ==
    /\ pc = "harness"
    /\ fpc \in {"idle", "ret"}
    /\ calls < 2
    /\ calls' = calls + 1
    /\ before' = IF calls = 0 THEN db[prefix] ELSE before
    /\ fillTableCall(prefix, limit)
    /\ UNCHANGED <<db, flagVars, pc, wpc, drawVars, writer, txn, iterations,
                   finished, wg, reported, performed, total, runs>>

NextFill ==
    \/ HarnessCall
    \/ FillTableView
    \/ FillTableBatch
    \/ FillTableReturn

SpecFill == InitFill /\ [][NextFill]_vars

\* ------------------------------------------------ the result-row harness
\* main at wg.Wait() with every worker returned, for any final count of
\* iterations and a range of -benchtime values: 1.5us, 2.0005ms, 250ms and
\* 500ms (a count of nanoseconds above 2^31 is out of TLC's reach).
Benchtimes == {1500, Second \div 500 + 500, Second \div 4, Second \div 2}

InitMetrics ==
    /\ db = CreateBuckets(<<>>)
    /\ scale = 1
    /\ RWMode \in BOOLEAN
    /\ initMode = FALSE
    /\ concurrency \in 1..MaxWorkers
    /\ benchtime \in Benchtimes
    /\ iterations \in 0..MaxCount
    /\ pc = "wait"
    /\ finished = TRUE
    /\ wg = 0
    /\ wpc = [w \in Workers |-> IF w <= concurrency THEN "done" ELSE "unborn"]
    /\ prefix = "" /\ limit = 0 /\ created = 0 /\ fpc = "idle"
    /\ calls = 0 /\ before = <<>>
    /\ aid = [w \in Workers |-> 0]
    /\ tid = [w \in Workers |-> 0]
    /\ bid = [w \in Workers |-> 0]
    /\ adelta = [w \in Workers |-> 0]
    /\ writer = NoWorker
    /\ txn = <<>>
    /\ reported = <<>>
    /\ performed = [w \in Workers |-> 0]
    /\ total = 0
    /\ runs = 1

NextMetrics == MainReport

SpecMetrics == InitMetrics /\ [][NextMetrics]_vars

\* ============================================================== claims
BalanceOf(d, table, id, fields, balance) ==
    Unmarshal(Get(d[table], keyFor(id)), fields)[balance]

Keys(d, table) == DOMAIN d[table].kv

Commits(w) == wpc[w] = "commit" /\ wpc'[w] = "select"

\* C1: every committed readWrite with delta d on (a, t, b) leaves the
\* balances of account a, teller t and branch b exactly d greater than
\* before the transaction, and exactly one new History record, carrying
\* (a, t, b, d).
C1_TransferEffect ==
    [][\A w \in Workers : Commits(w) =>
          /\ BalanceOf(db', accountPrefix, aid[w], AccountFields, "Abalance")
                = BalanceOf(db, accountPrefix, aid[w], AccountFields, "Abalance") + adelta[w]
          /\ BalanceOf(db', tellerPrefix, tid[w], TellerFields, "Tbalance")
                = BalanceOf(db, tellerPrefix, tid[w], TellerFields, "Tbalance") + adelta[w]
          /\ BalanceOf(db', branchPrefix, bid[w], BrancheFields, "Bbalance")
                = BalanceOf(db, branchPrefix, bid[w], BrancheFields, "Bbalance") + adelta[w]
          /\ LET new == Keys(db', historyPrefix) \ Keys(db, historyPrefix)
             IN /\ Cardinality(new) = 1
                /\ \A k \in new :
                      Unmarshal(db'[historyPrefix].kv[k], HistoryFields)
                         = History(tid[w], bid[w], aid[w], adelta[w])
                /\ \A k \in Keys(db, historyPrefix) :
                      /\ k \in Keys(db', historyPrefix)
                      /\ db'[historyPrefix].kv[k] = db[historyPrefix].kv[k]
      ]_vars

\* C2: while the workload runs, the key sets of the account, teller and
\* branch buckets never change.
C2_KeySetsFixed ==
    [][pc = "wait" =>
          \A t \in {accountPrefix, tellerPrefix, branchPrefix} : Keys(db', t) = Keys(db, t)
      ]_vars

\* C3: a read-write run that starts with an empty History bucket and in
\* which no operation fails ends, all workers joined, with as many History
\* records as iterations were counted.
C3_HistoryCountIsIterations ==
    (pc = "exit" /\ RWMode) => Cardinality(Keys(db, historyPrefix)) = iterations

C3_Witness ==
    /\ pc = "exit"
    /\ RWMode
    /\ concurrency = 2
    /\ performed[1] = 1
    /\ performed[2] = 1

\* C4: from the start of a write transaction to its end, only its commit
\* changes the file: a transaction that fails, at whatever statement,
\* leaves the four buckets as they were when it started.
C4_NoPartialEffects ==
    [][(writer # NoWorker /\ ~(pc' = "wait" /\ writer' = NoWorker)) => db' = db]_vars

\* A transaction has failed at the branch lookup, after its account and
\* teller puts.
C4_Witness ==
    /\ pc = "crashed"
    /\ \E w \in Workers : wpc[w] = "branch"

AllSeeded ==
    /\ \A i \in 0..(accountsToCreate - 1) : keyFor(i) \in Keys(db, accountPrefix)
    /\ \A i \in 0..(tellersToCreate - 1) : keyFor(i) \in Keys(db, tellerPrefix)
    /\ \A i \in 0..(branchesToCreate - 1) : keyFor(i) \in Keys(db, branchPrefix)

\* C5: with -init, when the first worker starts every account, teller and
\* branch id of the scale exists, whatever earlier runs left in the file.
C5_SeededBeforeWorkload ==
    (pc = "wait" /\ initMode /\ iterations = 0) => AllSeeded

Range(l) == {keyFor(i) : i \in 0..(l - 1)}

\* C6: fillTable on an empty bucket leaves exactly the keys 0..limit-1, each
\* holding what the generator makes for it.
C6_SeedingComplete ==
    (fpc = "ret" /\ calls >= 1 /\ DOMAIN before.kv = {}) =>
        /\ Keys(db, prefix) = Range(limit)
        /\ \A i \in 0..(limit - 1) :
              db[prefix].kv[keyFor(i)] = valueFor(genfunc(prefix, i))

\* Two batches, the second one short.
C6_Witness ==
    /\ fpc = "ret"
    /\ calls = 1
    /\ DOMAIN before.kv = {}
    /\ limit = BatchSize + 1
    /\ Cardinality(Keys(db, prefix)) = limit

\* C7: fillTable on a bucket of k < limit records ends with exactly limit
\* records, the k records it found unchanged.
C7_SeedingResumes ==
    (fpc = "ret" /\ calls = 1 /\ Cardinality(DOMAIN before.kv) < limit) =>
        /\ Cardinality(Keys(db, prefix)) = limit
        /\ \A k \in DOMAIN before.kv :
              /\ k \in Keys(db, prefix)
              /\ db[prefix].kv[k] = before.kv[k]

\* C8: a second fillTable with the same arguments changes nothing.
C8_SecondCallChangesNothing ==
    [][calls = 2 => db' = db]_vars

\* The second call has returned, after a first call that added records.
C8_Witness ==
    /\ calls = 2
    /\ fpc = "ret"
    /\ db[prefix] # before

RECURSIVE SumTo(_, _)
SumTo(f, n) == IF n = 0 THEN 0 ELSE f[n] + SumTo(f, n - 1)

\* C9: the shared counter is the sum of the iterations the workers
\* performed.
C9_CounterIsSum ==
    iterations = SumTo(performed, MaxWorkers)

C9_Witness ==
    /\ pc = "exit"
    /\ performed[1] >= 1
    /\ performed[2] >= 1

\* C10: exactly concurrency workers are spawned, and when main is past
\* wg.Wait() all of them have returned, no transaction is open, and the row
\* is computed from the counter as it then stands.
C10_JoinBeforeReport ==
    /\ pc \in {"wait", "exit"} =>
          Cardinality({w \in Workers : wpc[w] # "unborn"}) = concurrency
    /\ pc = "exit" =>
          /\ \A w \in Workers : wpc[w] \in {"done", "unborn"}
          /\ writer = NoWorker
          /\ reported = ResultRow

C10_Witness ==
    /\ pc = "exit"
    /\ concurrency = 2
    /\ iterations = 2
    /\ Cardinality(Keys(db, historyPrefix)) = 2

\* The steps of an operation in flight: from the counter's increment to the
\* return of readWrite or read.
InFlight(w) == wpc[w] \in {"op", "account", "teller", "branch", "history", "commit"}

\* C11: the deadline is looked at before each iteration, and no iteration
\* starts once it has passed; the deadline's passing changes nothing but the
\* Done channel, so it neither aborts nor truncates an operation in flight;
\* and an operation that is in flight when the deadline passes runs to its
\* end: the worker is back at the select with its History record committed.
C11_CooperativeCancellation ==
    /\ [][finished => \A w \in Workers : ~(wpc[w] = "select" /\ wpc'[w] = "op")]_vars
    /\ [][finished' # finished =>
             UNCHANGED <<db, txn, writer, wpc, drawVars, iterations, performed, wg>>]_vars
    /\ [][\A w \in Workers :
             (InFlight(w) /\ wpc'[w] # wpc[w]) =>
                 (InFlight(w)' \/ (wpc'[w] = "select" /\ (RWMode => Commits(w))))]_vars
    /\ (finished /\ \E w \in Workers : InFlight(w)) ~> (\A w \in Workers : ~InFlight(w))

\* The deadline has passed while a transaction was open, and the
\* transaction has since reached its commit.
C11_Witness ==
    /\ finished
    /\ \E w \in Workers : wpc[w] = "commit" /\ writer = w

\* C17: once the deadline has passed, no worker starts an iteration (each
\* finishes at most the one it is in), every worker returns, and main
\* gets past wg.Wait() and reports.
C17_HarnessTerminates ==
    /\ [][finished => iterations' = iterations /\ performed' = performed]_vars
    /\ finished ~> (pc = "exit" /\ reported # <<>> /\
                       \A w \in Workers : w <= concurrency => wpc[w] = "done")

\* Both workers were in an operation when the deadline passed, and the run
\* has reported.
C17_Witness ==
    /\ pc = "exit"
    /\ concurrency = 2
    /\ RWMode
    /\ performed[1] >= 1
    /\ performed[2] >= 1

\* Worker w is at a lookup that finds no record.
LookupAbsent(w) ==
    \/ wpc[w] = "account" /\ Get(txn[accountPrefix], keyFor(aid[w])) = Nil
    \/ wpc[w] = "teller" /\ Get(txn[tellerPrefix], keyFor(tid[w])) = Nil
    \/ wpc[w] = "branch" /\ Get(txn[branchPrefix], keyFor(bid[w])) = Nil

RECURSIVE Atoi(_)
Atoi(k) == IF Len(k) = 0 THEN 0 ELSE 10 * Atoi(SubSeq(k, 1, Len(k) - 1)) + k[Len(k)]

\* Bucket b2 is bucket b1 with exactly one record more, under a key whose
\* number is above the number of every key of b1 and above every sequence
\* number b1 has handed out; the records of b1 are as they were.
Appended(b1, b2) ==
    /\ \A k \in DOMAIN b1.kv : k \in DOMAIN b2.kv /\ b2.kv[k] = b1.kv[k]
    /\ Cardinality(DOMAIN b2.kv) = Cardinality(DOMAIN b1.kv) + 1
    /\ \A k \in (DOMAIN b2.kv) \ (DOMAIN b1.kv) :
          /\ Atoi(k) > b1.sequence
          /\ \A j \in DOMAIN b1.kv : Atoi(k) > Atoi(j)

\* C13: the History bucket only grows, one record per readWrite, each under
\* a key above all keys used before, in the transaction that inserts it and
\* in the file when it commits; no step of any worker changes or removes a
\* History record.
C13_HistoryAppendOnly ==
    /\ [][\A w \in Workers :
             (wpc[w] = "history" /\ wpc'[w] = "commit") =>
                 Appended(txn[historyPrefix], txn'[historyPrefix])]_vars
    /\ [][\A w \in Workers :
             Commits(w) => Appended(db[historyPrefix], db'[historyPrefix])]_vars
    /\ [][(pc = "wait" /\ \A w \in Workers : ~Commits(w)) =>
             db'[historyPrefix] = db[historyPrefix]]_vars

\* Two workers have each committed a History record.
C13_Witness ==
    /\ pc = "wait"
    /\ performed[1] = 1
    /\ performed[2] = 1
    /\ Keys(db, historyPrefix) = {keyFor(1), keyFor(2)}

\* The file when the workload of a -scale=1 run on a new file starts.
FileAtStart == IF initMode THEN SeededFile ELSE CreateBuckets(<<>>)

\* C14: in read-only mode no step of the workload changes the four buckets:
\* from the start of the workload to the report, or the crash, the file is
\* what it was.  A read iteration changes the counter when it starts and
\* nothing when read() returns.
C14_ReadOnlyLeavesStore ==
    /\ [][(pc = "wait" /\ ~RWMode) => db' = db]_vars
    /\ [](~RWMode /\ pc \in {"wait", "exit", "crashed"} => db = FileAtStart)
    /\ [][\A w \in Workers :
             (~RWMode /\ wpc[w] = "op" /\ wpc'[w] = "select") =>
                 UNCHANGED <<db, txn, writer, iterations, finished, wg, reported>>]_vars
    /\ [][\A w \in Workers :
             (~RWMode /\ wpc[w] = "select" /\ wpc'[w] = "op") =>
                 /\ iterations' = iterations + 1
                 /\ UNCHANGED <<db, txn, writer, finished, wg, reported>>]_vars

\* Two workers have each read the seeded account, and the run has
\* reported.
C14_Witness ==
    /\ pc = "exit"
    /\ ~RWMode
    /\ initMode
    /\ performed[1] = 1
    /\ performed[2] = 1

\* n/d written with three decimals, by long division: the integer part,
\* three more digits, and one up when what is left is half of d or more.
Decimal3(n, d) ==
    LET whole == n \div d
        r0 == n % d
        d1 == (10 * r0) \div d
        r1 == (10 * r0) % d
        d2 == (10 * r1) \div d
        r2 == (10 * r1) % d
        d3 == (10 * r2) \div d
        r3 == (10 * r2) % d
        th == 100 * d1 + 10 * d2 + d3 + (IF 2 * r3 >= d THEN 1 ELSE 0)
    IN IF th = 1000 THEN <<whole + 1, 0>> ELSE <<whole, th>>

\* C15: with I > 0 iterations counted, the row's latency is T/I*C for T the
\* whole microseconds of the configured -benchtime, and its throughput is
\* I over the configured -benchtime in seconds (I * 10^9 over its
\* nanoseconds), each printed with three decimals.
C15_MetricsFormulas ==
    (pc = "exit" /\ iterations > 0) =>
        LET g == GCD(Second, benchtime)
        IN /\ reported[2].text = ""
           /\ <<reported[2].int, reported[2].frac>>
                 = Decimal3((benchtime \div 1000) * concurrency, iterations)
           /\ reported[3].text = ""
           /\ <<reported[3].int, reported[3].frac>>
                 = Decimal3(iterations * (Second \div g), benchtime \div g)

\* -benchtime=1500ns -concurrency=2 and 3 iterations: latency 0.667 us,
\* throughput 2000000.000 per second.
C15_Witness ==
    /\ pc = "exit"
    /\ benchtime = 1500
    /\ concurrency = 2
    /\ iterations = 3
    /\ reported[2] = [text |-> "", int |-> 0, frac |-> 667]
    /\ reported[3] = [text |-> "", int |-> 2000000, frac |-> 0]

Min(a, b) == IF a < b THEN a ELSE b

\* ceil(a / b) for a >= 0, b > 0
Ceil(a, b) == (a + b - 1) \div b

\* C16: on a bucket of k < limit records fillTable returns after exactly
\* ceil((limit - k) / BatchSize) batches, its counter having gone from k up
\* by BatchSize per batch; the batch that starts at created puts exactly
\* the keys created .. min(created + BatchSize, limit) - 1, each with what
\* the generator makes, and touches no other record.
C16_SeedingBatches ==
    /\ [][(fpc = "view" /\ fpc' = "loop") => created' = CursorCount(db[prefix])]_vars
    /\ [][(fpc = "loop" /\ fpc' = "loop") =>
             LET written == {keyFor(it) : it \in created..(Min(created + BatchSize, limit) - 1)}
             IN /\ created < limit
                /\ created' = created + BatchSize
                /\ Cardinality(written) \in 1..BatchSize
                /\ Keys(db', prefix) = Keys(db, prefix) \cup written
                /\ \A it \in created..(Min(created + BatchSize, limit) - 1) :
                      db'[prefix].kv[keyFor(it)] = valueFor(genfunc(prefix, it))
                /\ \A k \in Keys(db, prefix) \ written :
                      db'[prefix].kv[k] = db[prefix].kv[k]]_vars
    /\ [][(fpc = "loop" /\ fpc' = "ret") => (created >= limit /\ db' = db)]_vars
    /\ []((fpc = "ret" /\ calls = 1 /\ CursorCount(before) < limit) =>
             created = CursorCount(before)
                          + BatchSize * Ceil(limit - CursorCount(before), BatchSize))

\* One record found, a full batch and a short one written: the counter
\* ends above the limit.
C16_Witness ==
    /\ fpc = "ret"
    /\ calls = 1
    /\ CursorCount(before) = 1
    /\ limit = BatchSize + 2
    /\ created = 1 + 2 * BatchSize
    /\ created > limit

\* C18: when main is past wg.Wait(), at least one iteration has been
\* counted, and the latency of the row is a number.
C18_NonDegenerateResult ==
    pc = "exit" => (iterations > 0 /\ reported[2].text = "")

\* The sum of the balance field over all records of a bucket.
RECURSIVE SumOver(_, _, _)
SumOver(b, ks, field) ==
    IF ks = {} THEN 0
    ELSE LET k == CHOOSE x \in ks : TRUE
         IN Unmarshal(b.kv[k], FieldsOf([y \in {field} |-> 0]))[field]
               + SumOver(b, ks \ {k}, field)

Total(d, table, field) == SumOver(d[table], Keys(d, table), field)

\* C19: in a run that seeded a new file, the account balances, the teller
\* balances, the branch balances and the History deltas have the same sum
\* in every committed state.
C19_BalanceConservation ==
    (initMode /\ pc \in {"wait", "exit", "crashed"}) =>
        /\ Total(db, accountPrefix, "Abalance") = Total(db, historyPrefix, "Delta")
        /\ Total(db, tellerPrefix, "Tbalance") = Total(db, historyPrefix, "Delta")
        /\ Total(db, branchPrefix, "Bbalance") = Total(db, historyPrefix, "Delta")

\* C20: in a read-write run on a new file the counter is the number of
\* committed History records plus the number of workers in an operation:
\* never below the records, never more than concurrency above them.
C20_CounterLeadsCommits ==
    (RWMode /\ pc \in {"wait", "exit", "crashed"}) =>
        LET committed == Cardinality(Keys(db, historyPrefix))
        IN /\ committed <= iterations
           /\ iterations <= committed + concurrency
           /\ iterations = committed + Cardinality({w \in Workers : InFlight(w)})

\* Both workers have counted an iteration and neither has committed.
C20_Witness ==
    /\ RWMode
    /\ pc = "wait"
    /\ iterations = 2
    /\ Keys(db, historyPrefix) = {}
    /\ wpc[1] = "history"
    /\ wpc[2] = "op"

====
